---------------------------- MODULE Spec2Model ----------------------------
(***************************************************************************)
(* Order tracking application (src/app.py): one table of orders behind     *)
(* five request handlers (list, create, update, delete, export).           *)
(*                                                                         *)
(* A request is sent (Request), handled by the handler of its route in one *)
(* step (get_orders, add_order, update_order, delete_order,                *)
(* export_to_excel) and its response is delivered (Respond).  The handler  *)
(* step is the whole handler, commit or rollback included.                 *)
(*                                                                         *)
(* Values.  A datetime is a number of clock ticks, TicksPerDay ticks to a  *)
(* day; a 'YYYY-MM-DD' string is the number of its day, the empty string   *)
(* is EmptyStr and None is NULL.  Prices are whole numbers of the smallest *)
(* currency unit.  Request bodies carry values of the column's type.       *)
(***************************************************************************)
EXTENDS Integers, Sequences, FiniteSets, TLC

VARIABLES orders,   \* the rows of table "order", in rowid order
          clock,    \* the process's local time, in ticks
          phase,    \* "idle", "pending" (request in flight), "done" (response in flight)
          req,      \* the request in flight: [op, id, data]
          resp,     \* the response: [status, exc, body]
          before,   \* the rows when the handler of req started
          nreq,     \* number of requests sent so far
          sess,     \* the database sessions of concurrently handled PUT requests
          log       \* the sessions that committed, in commit order

vars == <<orders, clock, phase, req, resp, before, nreq, sess, log>>

----------------------------------------------------------------------------
(* Bounds *)

MaxOrders == 2      \* rows the table holds at most
MaxRequests == 3    \* requests sent in one behaviour
MaxTicks == 1       \* clock ticks after start
TicksPerDay == 2    \* resolution of the clock

NULL == -1
EmptyStr == 0

OrderNumbers == {"A1", "A2"}
Quantities == {2, 3}
Prices == {5, 7}
Cities == {"X", "Y"}
DocTypes == {"Invoice", "Nota"}
Statuses == {"proses"}
Notes == {"rush"}
DateStrs == {EmptyStr, 1, 2}
Ids == 1 .. MaxOrders

----------------------------------------------------------------------------
(* Order and its serialisation *)

Required == {"order_number", "rim_quantity", "city", "document_type", "unit_price"}

DateFields == {"date", "entry_date", "print_deadline", "cek_date", "finish_date"}

\* the keys of to_dict, in the order the dictionary is built
FieldSeq ==
    << "id", "order_number", "date", "rim_quantity", "city", "document_type",
       "unit_price", "total_price", "entry_date", "print_deadline", "cek_date",
       "finish_date", "status", "notes" >>

Fields == { FieldSeq[i] : i \in 1 .. Len(FieldSeq) }

\* datetime.strptime(s, '%Y-%m-%d'): midnight of day s
Strptime(s) == s * TicksPerDay

\* dt.strftime('%Y-%m-%d'): the day, the time of day is dropped
Strftime(dt) == dt \div TicksPerDay

FormatDate(dt) == IF dt # NULL THEN Strftime(dt) ELSE NULL

to_dict(o) ==
    [ id |-> o.id,
      order_number |-> o.order_number,
      date |-> FormatDate(o.date),
      rim_quantity |-> o.rim_quantity,
      city |-> o.city,
      document_type |-> o.document_type,
      unit_price |-> o.unit_price,
      total_price |-> o.total_price,
      entry_date |-> FormatDate(o.entry_date),
      print_deadline |-> FormatDate(o.print_deadline),
      cek_date |-> FormatDate(o.cek_date),
      finish_date |-> FormatDate(o.finish_date),
      status |-> o.status,
      notes |-> o.notes ]

----------------------------------------------------------------------------
(* Request bodies *)

EmptyInput == [k \in {} |-> 0]

Has(data, k) == k \in DOMAIN data

\* data.get(k, default)
Get(data, k, default) == IF k \in DOMAIN data THEN data[k] ELSE default

\* data.get(k) is truthy: present and not the empty string
Truthy(data, k) == k \in DOMAIN data /\ data[k] # EmptyStr

Drop(data, k) == [x \in DOMAIN data \ {k} |-> data[x]]

BaseInput ==
    [ order_number |-> "A1", rim_quantity |-> 2, city |-> "X",
      document_type |-> "Invoice", unit_price |-> 5 ]

Patches ==
    { "order_number" :> v : v \in OrderNumbers }
      \cup { "rim_quantity" :> v : v \in Quantities }
      \cup { "unit_price" :> v : v \in Prices }
      \cup { "city" :> v : v \in Cities }
      \cup { "document_type" :> v : v \in DocTypes }
      \cup { "status" :> v : v \in Statuses }
      \cup { "notes" :> v : v \in Notes }
      \cup { "total_price" :> 99 }
      \cup { f :> v : f \in DateFields, v \in DateStrs }

PairPatches == { ("rim_quantity" :> q) @@ ("unit_price" :> p) : q \in {3}, p \in {7} }

CreateInputs ==
    { p @@ BaseInput : p \in Patches } \cup { Drop(BaseInput, k) : k \in Required }

UpdateInputs == {EmptyInput} \cup Patches \cup PairPatches


----------------------------------------------------------------------------
(* The table *)

\* position of the row with primary key id, 0 when there is none
Find(rows, id) ==
    IF \E i \in 1 .. Len(rows) : rows[i].id = id
    THEN CHOOSE i \in 1 .. Len(rows) : rows[i].id = id
    ELSE 0

\* INTEGER PRIMARY KEY of the development database: one more than the largest rowid
NextId(rows) == IF rows = <<>> THEN 1 ELSE rows[Len(rows)].id + 1

\* unique=True on order_number: no two rows hold the same number
Unique(rows) ==
    \A i, j \in 1 .. Len(rows) : i # j => rows[i].order_number # rows[j].order_number

\* db.session.add(order) without the commit: the request ends, the session is rolled back
InsertUncommitted(rows, order) == rows

\* db.session.add(order); db.session.commit()
Insert(rows, order) == Append(rows, order)

\* db.session.delete(order); db.session.commit()
Remove(rows, id) == SelectSeq(rows, LAMBDA o : o.id # id)

\* The UPDATE a commit flushes: the session writes the columns whose value it
\* changed since it loaded the row, and no others.
Flush(rows, loaded, order) ==
    [ i \in 1 .. Len(rows) |->
        IF rows[i].id = loaded.id
        THEN [ k \in Fields |-> IF order[k] # loaded[k] THEN order[k] ELSE rows[i][k] ]
        ELSE rows[i] ]

----------------------------------------------------------------------------
(* Handlers, as functions of the table, the request and the clock *)

\* status and body are what the client receives; exc is the exception the handler
\* raised, which stays in the server's log
Response(status, exc, body) == [status |-> status, exc |-> exc, body |-> body]

\* an exception no handler catches: Flask answers 500 Internal Server Error
ServerError(exc) == Response(500, exc, <<>>)

\* get_or_404 aborts the request: 404 Not Found
NotFound == Response(404, "NotFound", <<>>)

NoResponse == Response(0, "", <<>>)

total_price(unit_price, rim_quantity) == unit_price * rim_quantity

\* add_order with every date defaulting to the current time, as `date` does
CreateDateNow(data, k, default) == IF Truthy(data, k) THEN Strptime(data[k]) ELSE clock

\* a date of the request body, parsed, or the default
CreateDate(data, k, default) == IF Truthy(data, k) THEN Strptime(data[k]) ELSE default

\* the Order that add_order builds
NewOrder(data, id, now) ==
    [ id |-> id,
      order_number |-> data["order_number"],
      date |-> CreateDate(data, "date", now),
      rim_quantity |-> data["rim_quantity"],
      city |-> data["city"],
      document_type |-> data["document_type"],
      unit_price |-> data["unit_price"],
      total_price |-> total_price(data["unit_price"], data["rim_quantity"]),
      entry_date |-> CreateDate(data, "entry_date", NULL),
      print_deadline |-> CreateDate(data, "print_deadline", NULL),
      cek_date |-> NULL,
      finish_date |-> NULL,
      status |-> Get(data, "status", "masuk"),
      notes |-> Get(data, "notes", "") ]

\* update_order with dates handled as add_order handles them: an absent date is None
UpdateDateOrNull(order, data, k) == IF Truthy(data, k) THEN Strptime(data[k]) ELSE NULL

\* the assignments of update_order to the loaded Order
UpdateDate(order, data, k) == IF Truthy(data, k) THEN Strptime(data[k]) ELSE order[k]

\* update_order without line 106: total_price is one more column of the body
ModifyStale(order, data) ==
    [ k \in Fields |->
        IF k = "id" THEN order.id
        ELSE IF k \in DateFields
             THEN IF Truthy(data, k) THEN Strptime(data[k]) ELSE order[k]
             ELSE Get(data, k, order[k]) ]

Modify(order, data) ==
    LET rim_quantity == Get(data, "rim_quantity", order.rim_quantity)
        unit_price == Get(data, "unit_price", order.unit_price)
    IN  [ id |-> order.id,
          order_number |-> Get(data, "order_number", order.order_number),
          rim_quantity |-> rim_quantity,
          city |-> Get(data, "city", order.city),
          document_type |-> Get(data, "document_type", order.document_type),
          unit_price |-> unit_price,
          total_price |-> total_price(unit_price, rim_quantity),
          status |-> Get(data, "status", order.status),
          notes |-> Get(data, "notes", order.notes),
          date |-> UpdateDate(order, data, "date"),
          entry_date |-> UpdateDate(order, data, "entry_date"),
          print_deadline |-> UpdateDate(order, data, "print_deadline"),
          cek_date |-> UpdateDate(order, data, "cek_date"),
          finish_date |-> UpdateDate(order, data, "finish_date") ]

GetOrders(rows) == [ i \in 1 .. Len(rows) |-> to_dict(rows[i]) ]

\* order.to_dict() after the commit: the commit expires the instance, the first
\* attribute read loads it again from its row
Refreshed(rows, id) ==
    LET at == Find(rows, id) IN IF at = 0 THEN <<>> ELSE <<to_dict(rows[at])>>

AddOrder(rows, data, now) ==
    IF ~(Required \subseteq DOMAIN data)
    THEN [rows |-> rows, resp |-> ServerError("KeyError")]
    ELSE LET order == NewOrder(data, NextId(rows), now)
             stored == Insert(rows, order)
         IN  IF ~Unique(stored)
             THEN [rows |-> rows, resp |-> ServerError("IntegrityError")]
             ELSE [rows |-> stored, resp |-> Response(201, "", Refreshed(stored, order.id))]

\* the commit of a session that loaded `loaded` and holds `order`
CommitUpdate(rows, loaded, order) ==
    LET stored == Flush(rows, loaded, order) IN
    IF ~Unique(stored)
    THEN [rows |-> rows, resp |-> ServerError("IntegrityError")]
    ELSE [rows |-> stored, resp |-> Response(200, "", Refreshed(stored, order.id))]

UpdateOrder(rows, id, data) ==
    LET at == Find(rows, id) IN
    IF at = 0
    THEN [rows |-> rows, resp |-> NotFound]
    ELSE CommitUpdate(rows, rows[at], Modify(rows[at], data))

\* delete_order with query.get in place of get_or_404
DeleteOrderUnchecked(rows, id) ==
    [rows |-> Remove(rows, id), resp |-> Response(204, "", <<>>)]

DeleteOrder(rows, id) ==
    IF Find(rows, id) = 0
    THEN [rows |-> rows, resp |-> NotFound]
    ELSE [rows |-> Remove(rows, id), resp |-> Response(204, "", <<>>)]

\* pd.DataFrame(data).columns: the keys of the records, none when there is no record
DataFrameColumns(recs) == IF recs = <<>> THEN <<>> ELSE FieldSeq

\* the rows of sheet 'Orders': the header cells, then one row of cells per record;
\* a frame without columns writes no cell at all
ExportSheet(recs) ==
    LET columns == DataFrameColumns(recs) IN
    IF columns = <<>>
    THEN <<>>
    ELSE <<columns>> \o
         [ i \in 1 .. Len(recs) |-> [ c \in 1 .. Len(columns) |-> recs[i][columns[c]] ] ]

----------------------------------------------------------------------------
(* Requests handled one at a time *)

NoRequest == [op |-> "", id |-> 0, data |-> EmptyInput]

Sessions == {"a", "b"}

IdleSession == [pc |-> "idle", id |-> 0, data |-> EmptyInput, loaded |-> <<>>,
                order |-> <<>>, resp |-> NoResponse]

StartClock == TicksPerDay + 1

Init ==
    /\ orders = <<>>
    /\ clock = StartClock
    /\ phase = "idle"
    /\ req = NoRequest
    /\ resp = NoResponse
    /\ before = <<>>
    /\ nreq = 0
    /\ sess = [s \in Sessions |-> IdleSession]
    /\ log = <<>>

Requests(rows) ==
    { [op |-> "GET", id |-> 0, data |-> EmptyInput],
      [op |-> "EXPORT", id |-> 0, data |-> EmptyInput] }
      \cup { [op |-> "POST", id |-> 0, data |-> d] :
               d \in IF Len(rows) < MaxOrders THEN CreateInputs ELSE {} }
      \cup { [op |-> "PUT", id |-> i, data |-> d] : i \in Ids, d \in UpdateInputs }
      \cup { [op |-> "DELETE", id |-> i, data |-> EmptyInput] : i \in Ids }

\* a client sends a request
Request ==
    /\ phase = "idle"
    /\ nreq < MaxRequests
    /\ \E r \in Requests(orders) : req' = r
    /\ phase' = "pending"
    /\ nreq' = nreq + 1
    /\ UNCHANGED <<orders, clock, resp, before, sess, log>>

Handle(result) ==
    /\ orders' = result.rows
    /\ resp' = result.resp
    /\ before' = orders
    /\ phase' = "done"
    /\ UNCHANGED <<clock, req, nreq, sess, log>>

get_orders ==
    /\ phase = "pending"
    /\ req.op = "GET"
    /\ Handle([rows |-> orders, resp |-> Response(200, "", GetOrders(orders))])

add_order ==
    /\ phase = "pending"
    /\ req.op = "POST"
    /\ Handle(AddOrder(orders, req.data, clock))

update_order ==
    /\ phase = "pending"
    /\ req.op = "PUT"
    /\ Handle(UpdateOrder(orders, req.id, req.data))

delete_order ==
    /\ phase = "pending"
    /\ req.op = "DELETE"
    /\ Handle(DeleteOrder(orders, req.id))

export_to_excel ==
    /\ phase = "pending"
    /\ req.op = "EXPORT"
    /\ Handle([rows |-> orders,
               resp |-> Response(200, "", ExportSheet(GetOrders(orders)))])

\* the response reaches the client
Respond ==
    /\ phase = "done"
    /\ phase' = "idle"
    /\ req' = NoRequest
    /\ resp' = NoResponse
    /\ before' = <<>>
    /\ UNCHANGED <<orders, clock, nreq, sess, log>>

\* time passes
Tick ==
    /\ phase = "idle"
    /\ clock < StartClock + MaxTicks
    /\ clock' = clock + 1
    /\ UNCHANGED <<orders, phase, req, resp, before, nreq, sess, log>>

Next ==
    \/ Request
    \/ get_orders
    \/ add_order
    \/ update_order
    \/ delete_order
    \/ export_to_excel
    \/ Respond
    \/ Tick

Spec == Init /\ [][Next]_vars

----------------------------------------------------------------------------
(* PUT requests handled concurrently, each in a session of its own *)

ConcInputs ==
    { "rim_quantity" :> v : v \in Quantities }
      \cup { "unit_price" :> v : v \in Prices }
      \cup { "city" :> v : v \in Cities \ {BaseInput.city} }
      \cup PairPatches

\* a client sends a POST request while no PUT request is being handled
Post ==
    /\ \A s \in Sessions : sess[s].pc = "idle"
    /\ Request
    /\ req'.op = "POST"

\* update_order up to its commit: the row is read and the Order changed in the session
Load(s) ==
    /\ phase = "idle"
    /\ sess[s].pc = "idle"
    /\ \E id \in Ids, data \in ConcInputs :
          LET at == Find(orders, id) IN
          sess' = [sess EXCEPT ![s] =
                     IF at = 0
                     THEN [IdleSession EXCEPT !.pc = "done", !.id = id, !.data = data,
                                              !.resp = NotFound]
                     ELSE [pc |-> "loaded", id |-> id, data |-> data,
                           loaded |-> orders[at], order |-> Modify(orders[at], data),
                           resp |-> NoResponse]]
    /\ UNCHANGED <<orders, clock, phase, req, resp, before, nreq, log>>

\* db.session.commit() of update_order, and its response
Commit(s) ==
    /\ sess[s].pc = "loaded"
    /\ LET result == CommitUpdate(orders, sess[s].loaded, sess[s].order) IN
          /\ orders' = result.rows
          /\ sess' = [sess EXCEPT ![s].pc = "done", ![s].resp = result.resp]
          /\ log' = IF result.resp.status = 200 THEN Append(log, s) ELSE log
    /\ UNCHANGED <<clock, phase, req, resp, before, nreq>>

NextConc ==
    \/ Post
    \/ add_order
    \/ Respond
    \/ \E s \in Sessions : Load(s)
    \/ \E s \in Sessions : Commit(s)

SpecConc == Init /\ [][NextConc]_vars

----------------------------------------------------------------------------
(* Properties of one handled request: phase = "done", req is the request,   *)
(* before the table it found, orders the table it left, resp its response   *)

Handled(op) == phase = "done" /\ req.op = op

Stored(rows, id) == \E i \in 1 .. Len(rows) : rows[i].id = id

RowOf(rows, id) == rows[CHOOSE i \in 1 .. Len(rows) : rows[i].id = id]

Derived(o) == o.total_price = o.unit_price * o.rim_quantity

\* a response any uncaught exception produces
GenericFailure(r) == r.status = 500

Failed(r) == r.status >= 400

\* C1: every stored order has total_price = unit_price * rim_quantity, whatever
\* total_price the request carried, and an update that supplies only one of
\* rim_quantity and unit_price computes total_price from it and the stored other.
C1_TotalPriceDerived ==
    /\ \A i \in 1 .. Len(orders) : Derived(orders[i])
    /\ Handled("PUT") /\ resp.status = 200 =>
         LET old == RowOf(before, req.id)
             new == RowOf(orders, req.id)
         IN  /\ Has(req.data, "rim_quantity") /\ ~Has(req.data, "unit_price") =>
                  /\ new.unit_price = old.unit_price
                  /\ new.total_price = old.unit_price * req.data["rim_quantity"]
             /\ Has(req.data, "unit_price") /\ ~Has(req.data, "rim_quantity") =>
                  /\ new.rim_quantity = old.rim_quantity
                  /\ new.total_price = req.data["unit_price"] * old.rim_quantity

C1_Witness ==
    /\ Handled("PUT")
    /\ resp.status = 200
    /\ DOMAIN req.data = {"rim_quantity"}
    /\ RowOf(before, req.id).rim_quantity # req.data["rim_quantity"]
    /\ RowOf(orders, req.id).total_price # RowOf(before, req.id).total_price

\* C2: a create whose order_number is already stored fails with an error of its
\* own, not the generic failure; no order is added and the stored ones are unchanged.
C2_DuplicateCreateDistinct ==
    Handled("POST") /\ Required \subseteq DOMAIN req.data
      /\ (\E i \in 1 .. Len(before) : before[i].order_number = req.data["order_number"])
      => /\ Failed(resp)
         /\ ~GenericFailure(resp)
         /\ orders = before

\* C3: no two stored orders share an order_number, and an update that would give
\* an order the number of another fails with an error of its own, not the generic
\* failure, and leaves the table unchanged.
C3_UniqueNumbersDistinct ==
    /\ \A i, j \in 1 .. Len(orders) :
          i # j => orders[i].order_number # orders[j].order_number
    /\ Handled("PUT") /\ Stored(before, req.id) /\ Has(req.data, "order_number")
         /\ (\E i \in 1 .. Len(before) :
               before[i].id # req.id /\ before[i].order_number = req.data["order_number"])
         => /\ Failed(resp)
            /\ ~GenericFailure(resp)
            /\ orders = before

\* C4: an update or a delete of an id that is not stored answers not found and
\* leaves the table as it was.
C4_NotFoundUnchanged ==
    phase = "done" /\ req.op \in {"PUT", "DELETE"} /\ ~Stored(before, req.id)
      => /\ resp.status = 404
         /\ resp.exc = "NotFound"
         /\ orders = before

C4_Witness ==
    /\ Handled("DELETE")
    /\ before # <<>>
    /\ ~Stored(before, req.id)
    /\ resp.status = 404

\* C5: a create that lacks a required field fails with an error that differs from
\* the one a duplicate order_number gets and from not found; no order is added.
DuplicateResponse ==
    AddOrder(AddOrder(<<>>, BaseInput, StartClock).rows, BaseInput, StartClock).resp

C5_MissingFieldDistinct ==
    Handled("POST") /\ ~(Required \subseteq DOMAIN req.data)
      => /\ Failed(resp)
         /\ resp.status # DuplicateResponse.status
         /\ resp.status # NotFound.status
         /\ orders = before

\* C6: a successful update leaves every other order alone and, on its order, every
\* field that the request lacks, and every date field that is absent or empty in
\* the request; a date that is set stays set.
Kept(data, k) ==
    \/ ~Has(data, k)
    \/ k \in DateFields /\ data[k] = EmptyStr

C6_UpdateFrame ==
    Handled("PUT") /\ resp.status = 200 =>
      /\ Len(orders) = Len(before)
      /\ \A i \in 1 .. Len(before) :
            /\ orders[i].id = before[i].id
            /\ before[i].id # req.id => orders[i] = before[i]
            /\ before[i].id = req.id =>
                 /\ \A k \in Fields \ {"total_price"} :
                       Kept(req.data, k) => orders[i][k] = before[i][k]
                 /\ \A k \in DateFields :
                       before[i][k] # NULL => orders[i][k] # NULL

C6_Witness ==
    /\ Handled("PUT")
    /\ resp.status = 200
    /\ Len(before) = 2
    /\ req.data = ("entry_date" :> EmptyStr)
    /\ RowOf(before, req.id).entry_date # NULL

\* C7: the record a create returns is exactly one of the records a read returns
\* right after it, the records stored earlier are returned as before.
C7_CreateReadRoundTrip ==
    Handled("POST") /\ resp.status = 201 =>
      LET read == GetOrders(orders)
          was == GetOrders(before)
      IN  /\ Len(resp.body) = 1
          /\ Cardinality({ i \in 1 .. Len(read) : read[i] = resp.body[1] }) = 1
          /\ Len(read) = Len(was) + 1
          /\ \A i \in 1 .. Len(was) : read[i] = was[i]

C7_Witness ==
    /\ Handled("POST")
    /\ resp.status = 201
    /\ before # <<>>
    /\ ~Has(req.data, "date")
    /\ clock % TicksPerDay # 0
    /\ resp.body[1].id = 2

\* C8: an export of N orders, N = 0 included, has N + 1 rows: the header, whose
\* cells are the serialised field names, and one row per order in read order.
C8_ExportRows ==
    Handled("EXPORT") =>
      LET read == GetOrders(before)
          sheet == resp.body
      IN  /\ Len(sheet) = Len(read) + 1
          /\ sheet[1] = FieldSeq
          /\ \A i \in 1 .. Len(read) :
                sheet[i + 1] = [ c \in 1 .. Len(FieldSeq) |-> read[i][FieldSeq[c]] ]

\* the same for N >= 1
C8_ExportRowsNonEmpty == before # <<>> => C8_ExportRows

\* C9: a create that supplies the required fields only stores and returns status
\* "masuk", empty notes, the current date, and no other date.
C9_CreateDefaults ==
    Handled("POST") /\ DOMAIN req.data = Required /\ resp.status = 201 =>
      /\ Len(resp.body) = 1
      /\ LET rec == resp.body[1]
             row == RowOf(orders, resp.body[1].id)
         IN  /\ rec.status = "masuk" /\ row.status = "masuk"
             /\ rec.notes = "" /\ row.notes = ""
             /\ rec.date = clock \div TicksPerDay
             /\ row.date \div TicksPerDay = clock \div TicksPerDay
             /\ \A k \in DateFields \ {"date"} : rec[k] = NULL /\ row[k] = NULL

C9_Witness ==
    /\ Handled("POST")
    /\ DOMAIN req.data = Required
    /\ resp.status = 201
    /\ clock > StartClock
    /\ before # <<>>

----------------------------------------------------------------------------
(* Two PUT requests on one order *)

BothCommitted ==
    /\ \A s \in Sessions : sess[s].pc = "done" /\ sess[s].resp.status = 200
    /\ sess["a"].id = sess["b"].id

\* C10: when two updates of one order interleave, the stored order is what the
\* two updates give applied one after the other in some order, and its
\* total_price is unit_price * rim_quantity.
C10_InterleavedSerial ==
    BothCommitted =>
      LET first == sess[log[1]].loaded
          final == RowOf(orders, sess["a"].id)
          ab == Modify(Modify(first, sess["a"].data), sess["b"].data)
          ba == Modify(Modify(first, sess["b"].data), sess["a"].data)
      IN  /\ final \in {ab, ba}
          /\ Derived(final)

=============================================================================
